---------------------------- MODULE Spec2Model ----------------------------
(***************************************************************************)
(* AI study assistant: the document-to-artifact pipeline.                  *)
(*                                                                         *)
(*   backend  src/backend/server.js   (multi-file /api/summarize,          *)
(*                                     /api/chat, /api/generate-quiz)      *)
(*            src/unnamed/part_000    (the single-file /api/summarize)     *)
(*   frontend src/frontend/app.js                                          *)
(*                                                                         *)
(* Strings are sequences of tokens (one token = one character class or one *)
(* indivisible piece of text); "" is << >>.                                *)
(***************************************************************************)
EXTENDS Integers, Sequences, FiniteSets, Bags, TLC

(***************************************************************************)
(* Bounds of the model.                                                    *)
(***************************************************************************)
\* summarize requests that arrive in one run
MaxReq == 2
\* files uploaded in one run, over all requests
MaxUploads == 2
\* last value of the millisecond clock (Date.now())
MaxClock == 1

(***************************************************************************)
(* Text.                                                                   *)
(***************************************************************************)
SP == " "
NL == "\n"
Whitespace == {SP, NL}

RECURSIVE TrimStart(_)
TrimStart(s) ==
    IF s # << >> /\ Head(s) \in Whitespace THEN TrimStart(Tail(s)) ELSE s

RECURSIVE TrimEnd(_)
TrimEnd(s) ==
    IF s # << >> /\ s[Len(s)] \in Whitespace
    THEN TrimEnd(SubSeq(s, 1, Len(s) - 1))
    ELSE s

\* String.prototype.trim
Trim(s) == TrimEnd(TrimStart(s))

\* JavaScript truthiness of a string: only "" is falsy
Truthy(s) == s # << >>

(***************************************************************************)
(* File names, extensions and MIME types.                                  *)
(***************************************************************************)
OriginalNames ==
    {"a.txt", "b.PDF", "c.exe", "d.docx", "e.pptx", "f.Docx", "g.PPTX", "notes"}

\* path.extname: from the last dot of the base name to its end, "" without
\* a dot
Extname(name) ==
    CASE name = "a.txt"  -> ".txt"
      [] name = "b.PDF"  -> ".PDF"
      [] name = "c.exe"  -> ".exe"
      [] name = "d.docx" -> ".docx"
      [] name = "e.pptx" -> ".pptx"
      [] name = "f.Docx" -> ".Docx"
      [] name = "g.PPTX" -> ".PPTX"
      [] OTHER           -> ""

\* String.prototype.toLowerCase on the extensions above
ToLowerCase(ext) ==
    CASE ext = ".PDF"  -> ".pdf"
      [] ext = ".Docx" -> ".docx"
      [] ext = ".PPTX" -> ".pptx"
      [] OTHER         -> ext

\* fileFilter's two allow-lists
allowedExtensions == {".pdf", ".docx", ".pptx", ".txt"}

allowedMimeTypes ==
    { "application/pdf",
      "application/vnd.openxmlformats-officedocument.wordprocessingml.document",
      "application/vnd.openxmlformats-officedocument.presentationml.presentation",
      "text/plain" }

\* multer's fileFilter: TRUE is cb(null, true), FALSE is cb(new Error(...))
\* fileFilter looking at the extension alone
fileFilter_ExtensionOnly(file) ==
    LET fileExtension == ToLowerCase(Extname(file.originalname))
    IN  fileExtension \in allowedExtensions

fileFilter(file) ==
    LET fileExtension == ToLowerCase(Extname(file.originalname))
    IN  fileExtension \in allowedExtensions /\ file.mimetype \in allowedMimeTypes

(***************************************************************************)
(* The uploads/ folder.  A stored file is named Date.now() + '-' +         *)
(* originalname; its data is the text an extractor gets out of it and      *)
(* whether the parsing library accepts it.  owner is the request whose     *)
(* upload wrote the file last (history, not read by the code).             *)
(***************************************************************************)
StoredNames == {"a.txt", "b.PDF", "c.exe"}

Paths == [ts : 0..MaxClock, name : StoredNames]

NoFile == [present |-> FALSE, owner |-> 0, text |-> << >>, wellFormed |-> FALSE]

\* storage.filename
StoragePath(now, originalname) == [ts |-> now, name |-> originalname]

\* path.extname of uploads/<ts>-<originalname>: the stored base name never
\* starts with a dot, so this is the extension of the original name
ExtnameOfPath(filePath) == Extname(filePath.name)

\* fs.unlink: the folder without the file
Unlink(fs, filePath) == [fs EXCEPT ![filePath] = NoFile]

(***************************************************************************)
(* The four extraction routines and their dispatcher.  Each returns        *)
(*   threw, message : whether it threw and the Error's message             *)
(*   text           : the returned text                                    *)
(*   calls          : the routines and library calls made, in order        *)
(*   cause          : what the thrown Error carries of the exception that  *)
(*                    was caught; every throw is new Error(message), which *)
(*                    carries nothing of it                                *)
(***************************************************************************)
Returned(text, calls) ==
    [threw |-> FALSE, message |-> "", cause |-> "", text |-> text, calls |-> calls]

Threw(message, calls) ==
    [threw |-> TRUE, message |-> message, cause |-> "", text |-> << >>, calls |-> calls]

\* the exception a file read or a parsing library throws on this file, as
\* the catch block of an extraction routine receives it
LibraryError(file) ==
    IF ~file.present
    THEN "ENOENT: no such file or directory, open"
    ELSE "[parser error]"

readPDF(fs, filePath) ==
    IF ~fs[filePath].present
    THEN Threw("Failed to read PDF file", <<"readPDF", "fs.readFile">>)
    ELSE IF ~fs[filePath].wellFormed
    THEN Threw("Failed to read PDF file", <<"readPDF", "fs.readFile", "pdfParse">>)
    ELSE Returned(fs[filePath].text, <<"readPDF", "fs.readFile", "pdfParse">>)

readWord(fs, filePath) ==
    IF ~fs[filePath].present
    THEN Threw("Failed to read Word document", <<"readWord", "fs.readFile">>)
    ELSE IF ~fs[filePath].wellFormed
    THEN Threw("Failed to read Word document",
               <<"readWord", "fs.readFile", "mammoth.extractRawText">>)
    ELSE Returned(fs[filePath].text,
                  <<"readWord", "fs.readFile", "mammoth.extractRawText">>)

readPowerPoint(fs, filePath) ==
    IF ~fs[filePath].present \/ ~fs[filePath].wellFormed
    THEN Threw("Failed to read PowerPoint file",
               <<"readPowerPoint", "officeParser.parseOfficeAsync">>)
    ELSE Returned(fs[filePath].text,
                  <<"readPowerPoint", "officeParser.parseOfficeAsync">>)

\* a UTF-8 read decodes any bytes: only a missing file makes it throw
readTextFile(fs, filePath) ==
    IF ~fs[filePath].present
    THEN Threw("Failed to read text file", <<"readTextFile", "fs.readFile">>)
    ELSE Returned(fs[filePath].text, <<"readTextFile", "fs.readFile">>)

\* extractTextFromFile with the default case reading the file as text
extractTextFromFile_DefaultsToText(fs, filePath) ==
    LET extension == ToLowerCase(ExtnameOfPath(filePath))
    IN  CASE extension = ".pdf"  -> readPDF(fs, filePath)
          [] extension = ".docx" -> readWord(fs, filePath)
          [] extension = ".pptx" -> readPowerPoint(fs, filePath)
          [] OTHER               -> readTextFile(fs, filePath)

\* extractTextFromFile switching on the extension as written
extractTextFromFile_CaseSensitive(fs, filePath) ==
    LET extension == ExtnameOfPath(filePath)
    IN  CASE extension = ".pdf"  -> readPDF(fs, filePath)
          [] extension = ".docx" -> readWord(fs, filePath)
          [] extension = ".pptx" -> readPowerPoint(fs, filePath)
          [] extension = ".txt"  -> readTextFile(fs, filePath)
          [] OTHER               -> Threw("Unsupported file type", << >>)

extractTextFromFile(fs, filePath) ==
    LET extension == ToLowerCase(ExtnameOfPath(filePath))
    IN  CASE extension = ".pdf"  -> readPDF(fs, filePath)
          [] extension = ".docx" -> readWord(fs, filePath)
          [] extension = ".pptx" -> readPowerPoint(fs, filePath)
          [] extension = ".txt"  -> readTextFile(fs, filePath)
          [] OTHER               -> Threw("Unsupported file type", << >>)

(***************************************************************************)
(* State.                                                                  *)
(*   build  which /api/summarize is deployed: "server.js" (upload.array,   *)
(*          many files) or "part_000" (upload.single, one file)            *)
(*   clock  Date.now()                                                     *)
(*   disk   the uploads/ folder                                            *)
(*   reqs   the summarize requests by arrival number, each with the        *)
(*          position of its handler (pc), the handler's locals and the     *)
(*          response it sent; texts is the history of what each            *)
(*          extraction returned, aiCalls and aiReply that of the AI call   *)
(*   exchange  the last /api/chat or /api/generate-quiz request handled    *)
(*          and its response                                               *)
(*   call   the last direct call of a helper function and its result       *)
(*   currentNoteText, currentQuiz, userAnswers, selectedFiles              *)
(*          the page's globals (app.js)                                    *)
(*   fetches  the page's requests in flight                                *)
(*   dom    what the page shows                                            *)
(***************************************************************************)
VARIABLES build, clock, disk, reqs, exchange, call,
          currentNoteText, currentQuiz, userAnswers, selectedFiles, fetches, dom

sumVars == <<build, clock, disk, reqs>>
apiVars == <<exchange>>
fnVars == <<call>>
pageVars == <<currentNoteText, currentQuiz, userAnswers, selectedFiles, fetches, dom>>

vars == <<sumVars, apiVars, fnVars, pageVars>>

\* what the steps of /api/summarize leave alone
notSum == <<apiVars, fnVars, pageVars>>

Builds == {"server.js", "part_000"}

ReqIds == 1..MaxReq

NoResponse == [status |-> 0, success |-> FALSE, error |-> "", summary |-> << >>]

NoRequest ==
    [ pc           |-> "none",
      handled      |-> FALSE,
      files        |-> << >>,
      i            |-> 0,
      combinedText |-> << >>,
      texts        |-> << >>,
      aiCalls      |-> 0,
      aiReply      |-> "none",
      summary      |-> << >>,
      error        |-> "",
      responses    |-> 0,
      res          |-> NoResponse ]

(***************************************************************************)
(* What a client can upload: a part of the multipart body is an original   *)
(* name, a declared MIME type and the bytes, here the text an extractor    *)
(* finds in them and whether the parsing library accepts them.             *)
(***************************************************************************)
Part(name, mime, text, wellFormed) ==
    [originalname |-> name, mimetype |-> mime,
     data |-> [text |-> text, wellFormed |-> wellFormed]]

Uploadable ==
    { Part("a.txt", "text/plain", << >>, TRUE),
      Part("a.txt", "text/plain", <<SP>>, TRUE),
      Part("a.txt", "text/plain", <<"x">>, TRUE),
      Part("b.PDF", "application/pdf", <<"y">>, TRUE),
      Part("b.PDF", "application/pdf", << >>, FALSE),
      Part("c.exe", "application/pdf", <<"z">>, TRUE) }

\* the bodies of at most n parts
PartSeqs(n) == UNION { [1..k -> Uploadable] : k \in 0..n }

\* the Date.now() of each stored part: from the clock on, never decreasing
Stamps(n) ==
    { t \in [1..n -> clock..MaxClock] :
        \A k \in 1..n : k > 1 => t[k - 1] <= t[k] }

\* multer.diskStorage: each part written under its storage path, a later
\* write to the same path replacing the earlier one
RECURSIVE Store(_, _, _, _, _)
Store(fs, id, parts, stamps, k) ==
    IF k > Len(parts)
    THEN fs
    ELSE Store([fs EXCEPT ![StoragePath(stamps[k], parts[k].originalname)] =
                    [present    |-> TRUE,
                     owner      |-> id,
                     text       |-> parts[k].data.text,
                     wellFormed |-> parts[k].data.wellFormed]],
               id, parts, stamps, k + 1)

\* req.files (req.file): what the handler sees of the stored parts
ReqFiles(parts, stamps) ==
    [k \in 1..Len(parts) |->
        [originalname |-> parts[k].originalname,
         path         |-> StoragePath(stamps[k], parts[k].originalname)]]

Uploaded == LET RECURSIVE Sum(_)
                Sum(k) == IF k = 0 THEN 0 ELSE Len(reqs[k].files) + Sum(k - 1)
            IN  Sum(MaxReq)

Arrived == Cardinality({r \in ReqIds : reqs[r].pc # "none"})

\* upload.array('files', 10) takes any number of parts up to 10,
\* upload.single('file') one
MaxCount(b) == IF b = "server.js" THEN 10 ELSE 1

(***************************************************************************)
(* The response of a handler.                                              *)
(***************************************************************************)
Respond(status, success, error, summary) ==
    [status |-> status, success |-> success, error |-> error, summary |-> summary]

NoFilesMessage(b) ==
    IF b = "server.js"
    THEN "No files uploaded. Please upload at least one file."
    ELSE "No file uploaded. Please upload a file."

EmptyContentMessage ==
    "Could not extract text from file. File may be empty or corrupted."

\* the for loop's `const extractedText` (server.js) is out of scope at the
\* check after the loop, so reading it throws a ReferenceError; part_000
\* declares it in the handler's body
extractedTextDeclared(b) == b = "part_000"

\* `\n\n=== ${file.originalname} ===\n\n`
Header(originalname) == <<NL, NL, "=== ", originalname, " ===", NL, NL>>

AppendDocument_Prepends(combinedText, file, extractedText) ==
    Header(file.originalname) \o extractedText \o combinedText

\* the loop body's two `combinedText +=`
AppendDocument(combinedText, file, extractedText) ==
    combinedText \o Header(file.originalname) \o extractedText

(***************************************************************************)
(* POST /api/summarize.  The handler runs from one await to the next in    *)
(* one step.                                                               *)
(***************************************************************************)
\* The middleware stores the parts, every one of which the fileFilter has
\* accepted (a refused part fails the request before the handler runs), and
\* the handler starts; with no file it answers 400 at once, otherwise it
\* awaits the first extraction.
Arrive(parts, stamps) ==
    LET id == Arrived + 1
    IN  /\ Arrived < MaxReq
        /\ Uploaded + Len(parts) <= MaxUploads
        /\ Len(parts) <= MaxCount(build)
        /\ \A k \in 1..Len(parts) : fileFilter(parts[k])
        /\ disk' = Store(disk, id, parts, stamps, 1)
        /\ clock' = IF parts = << >> THEN clock ELSE stamps[Len(parts)]
        /\ reqs' = [reqs EXCEPT ![id] =
              IF parts = << >>
              THEN [NoRequest EXCEPT
                      !.pc = "done", !.handled = TRUE, !.responses = 1,
                      !.res = Respond(400, FALSE, NoFilesMessage(build), << >>)]
              ELSE [NoRequest EXCEPT
                      !.pc = "extract", !.handled = TRUE, !.i = 1,
                      !.files = ReqFiles(parts, stamps)]]
        /\ UNCHANGED <<build, notSum>>

Tick ==
    /\ clock < MaxClock
    /\ clock' = clock + 1
    /\ UNCHANGED <<build, disk, reqs, notSum>>

\* entering the catch block: the first unlink is awaited
Catch(q, message) == [q EXCEPT !.pc = "catch", !.i = 1, !.error = message]

\* ExtractStep going on to the AI call with the text it has when an
\* extraction throws
ExtractStep_SummarizesTheRest(r) ==
    LET q    == reqs[r]
        file == q.files[q.i]
        got  == extractTextFromFile(disk, file.path)
        q1   == [q EXCEPT
                   !.combinedText =
                       IF build = "server.js"
                       THEN AppendDocument(q.combinedText, file, got.text)
                       ELSE q.combinedText,
                   !.texts = Append(q.texts, got.text)]
    IN  /\ q.pc = "extract"
        /\ reqs' = [reqs EXCEPT ![r] =
              IF got.threw
                THEN [q EXCEPT !.pc = "ai", !.aiCalls = q.aiCalls + 1,
                               !.error = got.message]
              ELSE IF q.i < Len(q.files)
                THEN [q1 EXCEPT !.i = q.i + 1]
              ELSE IF ~extractedTextDeclared(build)
                THEN Catch(q1, "extractedText is not defined")
              ELSE IF ~Truthy(got.text) \/ Len(Trim(got.text)) = 0
                THEN [q1 EXCEPT !.pc = "unlinkEmpty"]
              ELSE [q1 EXCEPT !.pc = "ai", !.aiCalls = q.aiCalls + 1]]
        /\ UNCHANGED <<build, clock, disk, notSum>>

\* An extraction settles.  On a throw the catch block starts.  Otherwise the
\* text joins the corpus and the loop goes on; after the last file the
\* handler checks the text and calls the AI service.
ExtractStep(r) ==
    LET q    == reqs[r]
        file == q.files[q.i]
        got  == extractTextFromFile(disk, file.path)
        q1   == [q EXCEPT
                   !.combinedText =
                       IF build = "server.js"
                       THEN AppendDocument(q.combinedText, file, got.text)
                       ELSE q.combinedText,
                   !.texts = Append(q.texts, got.text)]
    IN  /\ q.pc = "extract"
        /\ reqs' = [reqs EXCEPT ![r] =
              IF got.threw
                THEN Catch(q, got.message)
              ELSE IF q.i < Len(q.files)
                THEN [q1 EXCEPT !.i = q.i + 1]
              ELSE IF ~extractedTextDeclared(build)
                THEN Catch(q1, "extractedText is not defined")
              ELSE IF ~Truthy(got.text) \/ Len(Trim(got.text)) = 0
                THEN [q1 EXCEPT !.pc = "unlinkEmpty"]
              ELSE [q1 EXCEPT !.pc = "ai", !.aiCalls = q.aiCalls + 1]]
        /\ UNCHANGED <<build, clock, disk, notSum>>

\* The unlink before the empty-content answer settles.
UnlinkEmptyStep(r) ==
    LET q        == reqs[r]
        filePath == q.files[Len(q.files)].path
    IN  /\ q.pc = "unlinkEmpty"
        /\ IF disk[filePath].present
           THEN /\ disk' = Unlink(disk, filePath)
                /\ reqs' = [reqs EXCEPT ![r] =
                      [q EXCEPT !.pc = "done", !.responses = q.responses + 1,
                                !.res = Respond(400, FALSE, EmptyContentMessage, << >>)]]
           ELSE /\ disk' = disk
                /\ reqs' = [reqs EXCEPT ![r] =
                      Catch(q, "ENOENT: no such file or directory, unlink")]
        /\ UNCHANGED <<build, clock, notSum>>

\* what model.generateContent / response.text() can do
AIReplies ==
    { [ok |-> FALSE, text |-> << >>],
      [ok |-> TRUE,  text |-> <<"s">>],
      [ok |-> TRUE,  text |-> <<SP, "s", NL>>] }

\* The AI call settles: a provider error goes to the catch block, a text
\* becomes the summary and the clean-up loop starts.
AIStep(r, reply) ==
    LET q == reqs[r]
    IN  /\ q.pc = "ai"
        /\ reqs' = [reqs EXCEPT ![r] =
              IF reply.ok
              THEN [q EXCEPT !.pc = "cleanup", !.i = 1, !.aiReply = "text",
                             !.summary = reply.text]
              ELSE [Catch(q, "[GoogleGenerativeAI Error]") EXCEPT !.aiReply = "error"]]
        /\ UNCHANGED <<build, clock, disk, notSum>>

\* CleanupStep with a failed unlink ending the handler outside any try block
CleanupStep_UnlinkEscapes(r) ==
    LET q        == reqs[r]
        filePath == q.files[q.i].path
    IN  /\ q.pc = "cleanup"
        /\ IF disk[filePath].present
           THEN /\ disk' = Unlink(disk, filePath)
                /\ reqs' = [reqs EXCEPT ![r] =
                      IF q.i < Len(q.files)
                      THEN [q EXCEPT !.i = q.i + 1]
                      ELSE [q EXCEPT !.pc = "done", !.responses = q.responses + 1,
                                     !.res = Respond(200, TRUE, "", q.summary)]]
           ELSE /\ disk' = disk
                /\ reqs' = [reqs EXCEPT ![r] = [q EXCEPT !.pc = "escaped"]]
        /\ UNCHANGED <<build, clock, notSum>>

\* One unlink of the clean-up after the summary settles; after the last one
\* the success response is sent.  A failed unlink throws into the catch block.
CleanupStep(r) ==
    LET q        == reqs[r]
        filePath == q.files[q.i].path
    IN  /\ q.pc = "cleanup"
        /\ IF disk[filePath].present
           THEN /\ disk' = Unlink(disk, filePath)
                /\ reqs' = [reqs EXCEPT ![r] =
                      IF q.i < Len(q.files)
                      THEN [q EXCEPT !.i = q.i + 1]
                      ELSE [q EXCEPT !.pc = "done", !.responses = q.responses + 1,
                                     !.res = Respond(200, TRUE, "", q.summary)]]
           ELSE /\ disk' = disk
                /\ reqs' = [reqs EXCEPT ![r] =
                      Catch(q, "ENOENT: no such file or directory, unlink")]
        /\ UNCHANGED <<build, clock, notSum>>

CatchStep_KeepsFiles(r) ==
    LET q == reqs[r]
    IN  /\ q.pc = "catch"
        /\ reqs' = [reqs EXCEPT ![r] =
              [q EXCEPT !.pc = "done", !.responses = q.responses + 1,
                        !.res = Respond(500, FALSE, q.error, << >>)]]
        /\ UNCHANGED <<build, clock, disk, notSum>>

\* One unlink of the catch block settles, its own failure swallowed; after
\* the last one the 500 response is sent.
CatchStep(r) ==
    LET q        == reqs[r]
        filePath == q.files[q.i].path
    IN  /\ q.pc = "catch"
        /\ disk' = Unlink(disk, filePath)
        /\ reqs' = [reqs EXCEPT ![r] =
              IF q.i < Len(q.files)
              THEN [q EXCEPT !.i = q.i + 1]
              ELSE [q EXCEPT !.pc = "done", !.responses = q.responses + 1,
                             !.res = Respond(500, FALSE, q.error, << >>)]]
        /\ UNCHANGED <<build, clock, notSum>>

InitSum ==
    /\ build \in Builds
    /\ clock = 0
    /\ disk = [p \in Paths |-> NoFile]
    /\ reqs = [r \in ReqIds |-> NoRequest]


(***************************************************************************)
(* JSON request bodies.  A field of req.body is missing (undefined), a     *)
(* string, or some other JSON value, here the number 7.                    *)
(***************************************************************************)
Undefined == [type |-> "undefined", str |-> << >>]
Str(s) == [type |-> "string", str |-> s]
Seven == [type |-> "number", str |-> << >>]

\* JavaScript truthiness of these values
JsTruthy(v) ==
    CASE v.type = "undefined" -> FALSE
      [] v.type = "string"    -> Truthy(v.str)
      [] OTHER                -> TRUE

(***************************************************************************)
(* The AI's reply to a quiz prompt, and JSON.  A reply is a sequence of    *)
(* tokens: whitespace, the code fence, the word "json", prose, and JSON     *)
(* texts, each one complete JSON value written without a backtick.         *)
(***************************************************************************)
\* three backticks
FENCE == "[fence]"

Options(n) == SubSeq(<<"A", "B", "C", "D", "E">>, 1, n)

Question(text, nOptions, correctAnswer) ==
    [question |-> text, options |-> Options(nOptions), correctAnswer |-> correctAnswer]

\* a JSON value as far as the handler and the page look into it: its kind,
\* and for an object the kind and elements of its `questions` member
Json(kind, questionsKind, questions) ==
    [kind |-> kind, questionsKind |-> questionsKind, questions |-> questions]

Quiz5 ==
    Json("object", "array",
         << Question("Q1", 4, 0), Question("Q2", 4, 1), Question("Q3", 4, 2),
            Question("Q4", 4, 3), Question("Q5", 4, 0) >>)

Quiz2 == Json("object", "array", << Question("Q1", 4, 1), Question("Q2", 4, 3) >>)

\* a question with three options, and one whose answer index is 4
QuizBadShape ==
    Json("object", "array", << Question("Q1", 3, 0), Question("Q2", 4, 4) >>)

JsonTexts ==
    { "{quiz5}", "{quiz2}", "{quizBadShape}", "{questions:[]}", "{}",
      "{questions:text}", "{questions:null}", "null", "5", "[]", "text" }

\* the value a JSON text denotes
JsonValue(text) ==
    CASE text = "{quiz5}"            -> Quiz5
      [] text = "{quiz2}"            -> Quiz2
      [] text = "{quizBadShape}"     -> QuizBadShape
      [] text = "{questions:[]}"     -> Json("object", "array", << >>)
      [] text = "{}"                 -> Json("object", "undefined", << >>)
      [] text = "{questions:text}" -> Json("object", "string", << >>)
      [] text = "{questions:null}"   -> Json("object", "null", << >>)
      [] text = "null"               -> Json("null", "undefined", << >>)
      [] text = "5"                  -> Json("number", "undefined", << >>)
      [] text = "[]"                 -> Json("array", "undefined", << >>)
      [] OTHER                       -> Json("string", "undefined", << >>)

\* .replace(/[fence]json\n?/g, '')
RECURSIVE StripJsonFences(_)
StripJsonFences(s) ==
    IF s = << >> THEN << >>
    ELSE IF Len(s) >= 2 /\ s[1] = FENCE /\ s[2] = "json"
    THEN IF Len(s) >= 3 /\ s[3] = NL
         THEN StripJsonFences(SubSeq(s, 4, Len(s)))
         ELSE StripJsonFences(SubSeq(s, 3, Len(s)))
    ELSE <<s[1]>> \o StripJsonFences(Tail(s))

\* .replace(/[fence]\n?/g, '')
RECURSIVE StripFences(_)
StripFences(s) ==
    IF s = << >> THEN << >>
    ELSE IF s[1] = FENCE
    THEN IF Len(s) >= 2 /\ s[2] = NL
         THEN StripFences(SubSeq(s, 3, Len(s)))
         ELSE StripFences(Tail(s))
    ELSE <<s[1]>> \o StripFences(Tail(s))

\* the two replaces, then .trim()
CleanQuizText(quizText) == Trim(StripFences(StripJsonFences(quizText)))

\* JSON.parse: one JSON text, with whitespace around it at most; anything
\* else is a SyntaxError
JSONParse(s) ==
    LET body == Trim(s)
    IN  IF Len(body) = 1 /\ body[1] \in JsonTexts
        THEN [threw |-> FALSE, value |-> JsonValue(body[1])]
        ELSE [threw |-> TRUE, value |-> Json("undefined", "undefined", << >>)]

\* !quizData.questions || !Array.isArray(quizData.questions)
InvalidQuizFormat(quizData) == quizData.questionsKind # "array"

(***************************************************************************)
(* POST /api/chat and POST /api/generate-quiz.  A handler touches no       *)
(* shared state, so it is one step from the request to the response:       *)
(* body is req.body, reply what the AI service does when called.  The      *)
(* result is the response, the number of AI calls made and the prompt.     *)
(***************************************************************************)
Handled(status, success, error, data, aiCalls, prompt) ==
    [res     |-> [status |-> status, success |-> success, error |-> error, data |-> data],
     aiCalls |-> aiCalls,
     prompt  |-> prompt]

NoData == Json("undefined", "undefined", << >>)

ProviderError == "[GoogleGenerativeAI Error]"

\* the chat prompt: the template around the notes and the question
ChatPrompt(noteText, question) ==
    <<"chat: Study Notes:">> \o noteText \o <<"Student's Question:">> \o question
        \o <<"Instructios: ... Answer:">>

\* the quiz prompt: the template around the notes
QuizPrompt(noteText) ==
    <<"quiz: Study Notes:">> \o noteText \o <<"Instructions: ... Generate the quiz now:">>

\* chatHandler with the prompt of the request handled before put in front
chatHandler_ReplaysLast(body, reply) ==
    LET noteText == body.noteText
        question == body.question
        prompt   == exchange.out.prompt \o ChatPrompt(noteText.str, question.str)
    IN  IF ~JsTruthy(noteText) \/ ~JsTruthy(question)
          THEN Handled(400, FALSE, "Both noteText and question are required.",
                       NoData, 0, << >>)
        ELSE IF question.type # "string"
          THEN Handled(500, FALSE, "question.trim is not a function", NoData, 0, << >>)
        ELSE IF Len(Trim(question.str)) = 0
          THEN Handled(400, FALSE, "Question cannot be empty.", NoData, 0, << >>)
        ELSE IF ~reply.ok
          THEN Handled(500, FALSE, ProviderError, NoData, 1, prompt)
        ELSE Handled(200, TRUE, "",
                     [question |-> question.str, answer |-> reply.text], 1, prompt)

\* chatHandler without the check of noteText
chatHandler_NoNoteCheck(body, reply) ==
    LET noteText == body.noteText
        question == body.question
        prompt   == ChatPrompt(noteText.str, question.str)
    IN  IF ~JsTruthy(question)
          THEN Handled(400, FALSE, "Both noteText and question are required.",
                       NoData, 0, << >>)
        ELSE IF ~reply.ok
          THEN Handled(500, FALSE, ProviderError, NoData, 1, prompt)
        ELSE Handled(200, TRUE, "",
                     [question |-> question.str, answer |-> reply.text], 1, prompt)

chatHandler(body, reply) ==
    LET noteText == body.noteText
        question == body.question
        prompt   == ChatPrompt(noteText.str, question.str)
    IN  IF ~JsTruthy(noteText) \/ ~JsTruthy(question)
          THEN Handled(400, FALSE, "Both noteText and question are required.",
                       NoData, 0, << >>)
        ELSE IF question.type # "string"
          THEN Handled(500, FALSE, "question.trim is not a function", NoData, 0, << >>)
        ELSE IF Len(Trim(question.str)) = 0
          THEN Handled(400, FALSE, "Question cannot be empty.", NoData, 0, << >>)
        ELSE IF ~reply.ok
          THEN Handled(500, FALSE, ProviderError, NoData, 1, prompt)
        ELSE Handled(200, TRUE, "",
                     [question |-> question.str, answer |-> reply.text], 1, prompt)

\* whether the identifier `model` is declared where the route calls
\* model.generateContent: the summarize and chat handlers declare it, the
\* quiz handler does not
modelDeclared(route) == route # "/api/generate-quiz"

generateQuizHandler(body, reply) ==
    LET noteText == body.noteText
        prompt   == QuizPrompt(noteText.str)
        parsed   == JSONParse(CleanQuizText(reply.text))
        quizData == parsed.value
    IN  IF ~JsTruthy(noteText)
          THEN Handled(400, FALSE, "noteText is required.", NoData, 0, << >>)
        ELSE IF ~modelDeclared("/api/generate-quiz")
          THEN Handled(500, FALSE, "model is not defined", NoData, 0, << >>)
        ELSE IF ~reply.ok
          THEN Handled(500, FALSE, ProviderError, NoData, 1, prompt)
        ELSE IF parsed.threw
          THEN Handled(500, FALSE, "Unexpected token in JSON", NoData, 1, prompt)
        ELSE IF quizData.kind = "null"
          THEN Handled(500, FALSE,
                       "Cannot read properties of null (reading 'questions')",
                       NoData, 1, prompt)
        ELSE IF InvalidQuizFormat(quizData)
          THEN Handled(500, FALSE, "Invalid quiz format received from AI",
                       NoData, 1, prompt)
        ELSE Handled(200, TRUE, "", quizData, 1, prompt)

(***************************************************************************)
(* Requests to /api/chat and /api/generate-quiz from any client.           *)
(***************************************************************************)
NoExchange ==
    [route |-> "", body |-> [noteText |-> Undefined, question |-> Undefined],
     reply |-> [ok |-> FALSE, text |-> << >>],
     out   |-> Handled(0, FALSE, "", NoData, 0, << >>)]

NoteTexts == {Undefined, Str(<< >>), Str(<<SP>>), Str(<<"s">>)}

Questions == {Undefined, Str(<< >>), Str(<<SP>>), Str(<<"q">>), Seven}

\* what the AI service can answer to a quiz prompt
QuizReplies ==
    { [ok |-> FALSE, text |-> << >>] }
      \cup { [ok |-> TRUE, text |-> <<t>>] : t \in JsonTexts }
      \cup { [ok |-> TRUE, text |-> t] :
               t \in { <<FENCE, "json", NL, "{quiz5}", NL, FENCE>>,
                       <<FENCE, NL, "{quiz5}", NL, FENCE, NL>>,
                       <<"Here is your quiz:", NL, "{quiz5}">>,
                       <<"{quiz5">>,
                       << >> } }

ApiChat(noteText, question, reply) ==
    /\ exchange' = [route |-> "/api/chat",
                    body  |-> [noteText |-> noteText, question |-> question],
                    reply |-> reply,
                    out   |-> chatHandler([noteText |-> noteText,
                                           question |-> question], reply)]
    /\ UNCHANGED <<sumVars, fnVars, pageVars>>

ApiQuiz(noteText, reply) ==
    /\ exchange' = [route |-> "/api/generate-quiz",
                    body  |-> [noteText |-> noteText, question |-> Undefined],
                    reply |-> reply,
                    out   |-> generateQuizHandler([noteText |-> noteText,
                                                   question |-> Undefined], reply)]
    /\ UNCHANGED <<sumVars, fnVars, pageVars>>

InitApi == exchange = NoExchange

(***************************************************************************)
(* Direct calls of the helper functions.                                   *)
(***************************************************************************)
NoCall ==
    [fn |-> "", name |-> "", mimetype |-> "", ts |-> 0, file |-> NoFile,
     out |-> Returned(<< >>, << >>), accepted |-> FALSE]

\* what can lie at the path handed to an extraction routine
FileStates ==
    { NoFile,
      [present |-> TRUE, owner |-> 1, text |-> <<"x">>, wellFormed |-> TRUE],
      [present |-> TRUE, owner |-> 1, text |-> <<SP>>, wellFormed |-> TRUE],
      [present |-> TRUE, owner |-> 1, text |-> << >>, wellFormed |-> FALSE] }

DeclaredMimeTypes == allowedMimeTypes \cup {"application/octet-stream", "image/png"}

CallExtract(ts, name, file) ==
    LET filePath == StoragePath(ts, name)
        fs       == [p \in {filePath} |-> file]
    IN  /\ call' = [NoCall EXCEPT !.fn = "extractTextFromFile", !.name = name,
                                  !.ts = ts, !.file = file,
                                  !.out = extractTextFromFile(fs, filePath)]
        /\ UNCHANGED <<sumVars, apiVars, pageVars>>

InvalidFileTypeMessage ==
    "Invalid file type. Only PDF, DOCX, PPTX, and TXT files are allowed."

\* fileFilter's callback: cb(null, true), or cb(new Error(...), false)
CallFileFilter(name, mimetype) ==
    LET accepted == fileFilter([originalname |-> name, mimetype |-> mimetype])
    IN  /\ call' = [NoCall EXCEPT !.fn = "fileFilter", !.name = name,
                                  !.mimetype = mimetype,
                                  !.accepted = accepted,
                                  !.out = IF accepted
                                          THEN Returned(<< >>, << >>)
                                          ELSE Threw(InvalidFileTypeMessage, << >>)]
        /\ UNCHANGED <<sumVars, apiVars, pageVars>>

InitFn == call = NoCall

(***************************************************************************)
(* The page (app.js).  A fetch in flight is its URL and JSON body; it      *)
(* settles with a response of the server or fails.                         *)
(***************************************************************************)
\* requests the page has in flight at one time
MaxFetches == 2
\* files the user selects at one time
MaxSelected == 1

NullQuiz == [isNull |-> TRUE, questions |-> << >>]

NoAnswers == [x \in {} |-> 0]

\* scoreDisplay before any result was written
NoScore ==
    [written |-> FALSE, score |-> 0, total |-> 0,
     percentage |-> [nan |-> FALSE, value |-> 0]]

Fetch(url, noteText, question) ==
    [url |-> url, noteText |-> noteText, question |-> question]

InFlight(url) == {f \in BagToSet(fetches) : f.url = url}

\* a rejected fetch, or a body that is not JSON
Rejected == [kind |-> "reject", ok |-> FALSE, success |-> FALSE, error |-> "",
             summary |-> << >>, answer |-> << >>, questions |-> << >>]

Failure(error) == [Rejected EXCEPT !.kind = "json", !.error = error]

Success == [Rejected EXCEPT !.kind = "json", !.ok = TRUE, !.success = TRUE]

SummarizeResponses ==
    {Rejected, Failure("error")}
      \cup { [Success EXCEPT !.summary = t] : t \in {<< >>, <<"s">>, <<"t">>} }

ChatResponses ==
    {Rejected, Failure("error"), [Success EXCEPT !.answer = <<"a">>]}

QuizResponses ==
    {Rejected, Failure("error")}
      \cup { [Success EXCEPT !.questions = q] :
               q \in {Quiz2.questions, QuizBadShape.questions} }

SelectableFiles == UNION { [1..n -> {"a.txt"}] : n \in 0..MaxSelected }

\* showError: errorDiv.textContent, the last message shown (hiding the box
\* leaves the text)
showError(message) == [dom EXCEPT !.error = message]

ConnectMessage ==
    "Could not connect to server. Make sure the backend is running on http://localhost:5000"

\* what the page shows when a fetch has settled without success:
\* data.error || fallback, or the catch block's message
ErrorShown(response, fallback, catchMessage) ==
    IF response.kind = "reject" THEN showError(catchMessage)
    ELSE IF response.error # "" THEN showError(response.error)
    ELSE showError(fallback)

\* fileInput 'change'
FileChange(files) ==
    /\ selectedFiles' = files
    /\ UNCHANGED <<sumVars, apiVars, fnVars,
                   currentNoteText, currentQuiz, userAnswers, fetches, dom>>

\* generateButton 'click', up to the fetch
GenerateClick ==
    /\ BagCardinality(fetches) < MaxFetches
    /\ fetches' = IF Len(selectedFiles) = 0
                  THEN fetches
                  ELSE fetches (+) SetToBag({Fetch("/api/summarize", << >>, << >>)})
    /\ dom' = IF Len(selectedFiles) = 0
              THEN showError("Please select at least one file first!")
              ELSE dom
    /\ UNCHANGED <<sumVars, apiVars, fnVars,
                   currentNoteText, currentQuiz, userAnswers, selectedFiles>>

\* generateButton 'click', from the fetch on
\* SummarizeSettle adding the summary to the note it finds
SummarizeSettle_Appends(f, response) ==
    /\ f \in InFlight("/api/summarize")
    /\ fetches' = fetches (-) SetToBag({f})
    /\ currentNoteText' = IF response.kind = "json" /\ response.ok /\ response.success
                          THEN currentNoteText \o response.summary
                          ELSE currentNoteText
    /\ dom' = IF response.kind = "json" /\ response.ok /\ response.success
              THEN dom
              ELSE ErrorShown(response, "Failed to generate summary. Please try again.",
                              ConnectMessage)
    /\ UNCHANGED <<sumVars, apiVars, fnVars, currentQuiz, userAnswers, selectedFiles>>

\* SummarizeSettle dropping the note when the request has failed
SummarizeSettle_ClearsOnFailure(f, response) ==
    /\ f \in InFlight("/api/summarize")
    /\ fetches' = fetches (-) SetToBag({f})
    /\ currentNoteText' = IF response.kind = "json" /\ response.ok /\ response.success
                          THEN response.summary
                          ELSE << >>
    /\ dom' = IF response.kind = "json" /\ response.ok /\ response.success
              THEN dom
              ELSE ErrorShown(response, "Failed to generate summary. Please try again.",
                              ConnectMessage)
    /\ UNCHANGED <<sumVars, apiVars, fnVars, currentQuiz, userAnswers, selectedFiles>>

SummarizeSettle(f, response) ==
    /\ f \in InFlight("/api/summarize")
    /\ fetches' = fetches (-) SetToBag({f})
    /\ currentNoteText' = IF response.kind = "json" /\ response.ok /\ response.success
                          THEN response.summary
                          ELSE currentNoteText
    /\ dom' = IF response.kind = "json" /\ response.ok /\ response.success
              THEN dom
              ELSE ErrorShown(response, "Failed to generate summary. Please try again.",
                              ConnectMessage)
    /\ UNCHANGED <<sumVars, apiVars, fnVars, currentQuiz, userAnswers, selectedFiles>>

ChatInputs == {<< >>, <<SP>>, <<"q">>, <<SP, "q">>}

\* sendChatMessage leaving the input and the send button enabled
sendChatMessage_LeavesEnabled(value) ==
    LET question == Trim(value)
        sends    == Len(question) # 0 /\ Truthy(currentNoteText)
    IN  /\ ~dom.chatDisabled
        /\ BagCardinality(fetches) < MaxFetches
        /\ fetches' = IF sends
                      THEN fetches (+) SetToBag({Fetch("/api/chat", currentNoteText, question)})
                      ELSE fetches
        /\ dom' = IF sends \/ Len(question) = 0 THEN dom
                  ELSE showError("Please generate a summary first before chatting!")
        /\ UNCHANGED <<sumVars, apiVars, fnVars,
                       currentNoteText, currentQuiz, userAnswers, selectedFiles>>

\* sendChatMessage, up to the fetch; value is chatInput.value
sendChatMessage(value) ==
    LET question == Trim(value)
        sends    == Len(question) # 0 /\ Truthy(currentNoteText)
    IN  /\ ~dom.chatDisabled
        /\ BagCardinality(fetches) < MaxFetches
        /\ fetches' = IF sends
                      THEN fetches (+) SetToBag({Fetch("/api/chat", currentNoteText, question)})
                      ELSE fetches
        /\ dom' = IF sends THEN [dom EXCEPT !.chatDisabled = TRUE]
                  ELSE IF Len(question) = 0 THEN dom
                  ELSE showError("Please generate a summary first before chatting!")
        /\ UNCHANGED <<sumVars, apiVars, fnVars,
                       currentNoteText, currentQuiz, userAnswers, selectedFiles>>

\* sendChatMessage, from the fetch on
\* ChatSettle keeping the answer as the note
ChatSettle_WritesNote(f, response) ==
    /\ f \in InFlight("/api/chat")
    /\ fetches' = fetches (-) SetToBag({f})
    /\ dom' = [(IF response.kind = "json" /\ response.ok /\ response.success
                 THEN dom
                 ELSE ErrorShown(response, "Failed to get answer. Please try again.",
                                 "Could not connect to server."))
                EXCEPT !.chatDisabled = FALSE]
    /\ currentNoteText' = IF response.kind = "json" /\ response.ok /\ response.success
                          THEN response.answer
                          ELSE currentNoteText
    /\ UNCHANGED <<sumVars, apiVars, fnVars, currentQuiz, userAnswers, selectedFiles>>

ChatSettle(f, response) ==
    /\ f \in InFlight("/api/chat")
    /\ fetches' = fetches (-) SetToBag({f})
    /\ dom' = [(IF response.kind = "json" /\ response.ok /\ response.success
                 THEN dom
                 ELSE ErrorShown(response, "Failed to get answer. Please try again.",
                                 "Could not connect to server."))
                EXCEPT !.chatDisabled = FALSE]
    /\ UNCHANGED <<sumVars, apiVars, fnVars,
                   currentNoteText, currentQuiz, userAnswers, selectedFiles>>

\* generateQuizButton 'click', up to the fetch
GenerateQuizClick ==
    /\ BagCardinality(fetches) < MaxFetches
    /\ fetches' = IF ~Truthy(currentNoteText)
                  THEN fetches
                  ELSE fetches (+) SetToBag({Fetch("/api/generate-quiz", currentNoteText, << >>)})
    /\ dom' = IF ~Truthy(currentNoteText)
              THEN showError("Please generate a summary first!")
              ELSE dom
    /\ UNCHANGED <<sumVars, apiVars, fnVars,
                   currentNoteText, currentQuiz, userAnswers, selectedFiles>>

\* QuizSettle storing the new quiz next to the answers recorded so far
QuizSettle_KeepsAnswers(f, response) ==
    LET stored == response.kind = "json" /\ response.ok /\ response.success
    IN  /\ f \in InFlight("/api/generate-quiz")
        /\ fetches' = fetches (-) SetToBag({f})
        /\ currentQuiz' = IF stored
                          THEN [isNull |-> FALSE, questions |-> response.questions]
                          ELSE currentQuiz
        /\ userAnswers' = userAnswers
        /\ dom' = IF stored
                  THEN [dom EXCEPT !.resultsHidden = TRUE]
                  ELSE ErrorShown(response, "Failed to generate quiz. Please try again.",
                                  "Could not connect to server.")
        /\ UNCHANGED <<sumVars, apiVars, fnVars, currentNoteText, selectedFiles>>

\* generateQuizButton 'click', from the fetch on
QuizSettle(f, response) ==
    LET stored == response.kind = "json" /\ response.ok /\ response.success
    IN  /\ f \in InFlight("/api/generate-quiz")
        /\ fetches' = fetches (-) SetToBag({f})
        /\ currentQuiz' = IF stored
                          THEN [isNull |-> FALSE, questions |-> response.questions]
                          ELSE currentQuiz
        /\ userAnswers' = IF stored THEN NoAnswers ELSE userAnswers
        /\ dom' = IF stored
                  THEN [dom EXCEPT !.resultsHidden = TRUE]
                  ELSE ErrorShown(response, "Failed to generate quiz. Please try again.",
                                  "Could not connect to server.")
        /\ UNCHANGED <<sumVars, apiVars, fnVars, currentNoteText, selectedFiles>>

\* selectOption, called from the onclick of a displayed option
selectOption(questionIndex, optionIndex) ==
    /\ ~currentQuiz.isNull
    /\ questionIndex \in 0..(Len(currentQuiz.questions) - 1)
    /\ optionIndex \in 0..(Len(currentQuiz.questions[questionIndex + 1].options) - 1)
    /\ userAnswers' = [x \in DOMAIN userAnswers \cup {questionIndex} |->
                          IF x = questionIndex THEN optionIndex ELSE userAnswers[x]]
    /\ UNCHANGED <<sumVars, apiVars, fnVars,
                   currentNoteText, currentQuiz, selectedFiles, fetches, dom>>

\* removeFile, called from the remove button of a listed file
removeFile(index) ==
    /\ index \in 0..(Len(selectedFiles) - 1)
    /\ selectedFiles' = SubSeq(selectedFiles, 1, index)
                           \o SubSeq(selectedFiles, index + 2, Len(selectedFiles))
    /\ UNCHANGED <<sumVars, apiVars, fnVars,
                   currentNoteText, currentQuiz, userAnswers, fetches, dom>>

\* the number of questions whose stored answer is the correct one
RECURSIVE CorrectCount(_, _, _)
CorrectCount(quiz, answers, n) ==
    IF n = 0
    THEN 0
    ELSE CorrectCount(quiz, answers, n - 1)
           + (IF (n - 1) \in DOMAIN answers /\ answers[n - 1] = quiz[n].correctAnswer
              THEN 1 ELSE 0)

\* Math.round((score / total) * 100); 0 / 0 is NaN
Percentage(score, total) ==
    IF total = 0
    THEN [nan |-> TRUE, value |-> 0]
    ELSE [nan |-> FALSE, value |-> (200 * score + total) \div (2 * total)]

AnswerAllMessage == "Please answer all questions before submitting!"

\* submitQuiz showing the results whatever has been answered
submitQuiz_NoCheck ==
    LET total == Len(currentQuiz.questions)
        score == CorrectCount(currentQuiz.questions, userAnswers, total)
    IN  /\ ~currentQuiz.isNull
        /\ dom.resultsHidden
        /\ dom' = [dom EXCEPT !.resultsHidden = FALSE,
                              !.scoreDisplay =
                                  [written |-> TRUE, score |-> score, total |-> total,
                                   percentage |-> Percentage(score, total)]]
        /\ UNCHANGED <<sumVars, apiVars, fnVars,
                       currentNoteText, currentQuiz, userAnswers, selectedFiles, fetches>>

\* submitQuizButton 'click', with a quiz on the page.  The button is shown
\* by displayQuiz, which hides the results, and hidden by displayResults,
\* which shows them: it can be clicked while the results are hidden.
submitQuiz ==
    LET total == Len(currentQuiz.questions)
        score == CorrectCount(currentQuiz.questions, userAnswers, total)
    IN  /\ ~currentQuiz.isNull
        /\ dom.resultsHidden
        /\ dom' = IF Cardinality(DOMAIN userAnswers) < total
                  THEN showError(AnswerAllMessage)
                  ELSE [dom EXCEPT !.resultsHidden = FALSE,
                                   !.scoreDisplay =
                                       [written |-> TRUE, score |-> score, total |-> total,
                                        percentage |-> Percentage(score, total)]]
        /\ UNCHANGED <<sumVars, apiVars, fnVars,
                       currentNoteText, currentQuiz, userAnswers, selectedFiles, fetches>>

\* retakeQuizButton 'click', with a quiz on the page
retakeQuiz ==
    /\ ~currentQuiz.isNull
    /\ userAnswers' = NoAnswers
    /\ dom' = [dom EXCEPT !.resultsHidden = TRUE]
    /\ UNCHANGED <<sumVars, apiVars, fnVars,
                   currentNoteText, currentQuiz, selectedFiles, fetches>>

InitPage ==
    /\ currentNoteText = << >>
    /\ currentQuiz = NullQuiz
    /\ userAnswers = NoAnswers
    /\ selectedFiles = << >>
    /\ fetches = EmptyBag
    /\ dom = [chatDisabled |-> FALSE, error |-> "",
              resultsHidden |-> TRUE, scoreDisplay |-> NoScore]

(***************************************************************************)
(* Specifications.                                                         *)
(***************************************************************************)
Init == InitSum /\ InitApi /\ InitFn /\ InitPage

\* /api/summarize of either build, with any clients
Next ==
    \/ \E parts \in PartSeqs(MaxUploads - Uploaded) :
          \E stamps \in Stamps(Len(parts)) : Arrive(parts, stamps)
    \/ Tick
    \/ \E r \in ReqIds : ExtractStep(r)
    \/ \E r \in ReqIds : UnlinkEmptyStep(r)
    \/ \E r \in ReqIds : \E reply \in AIReplies : AIStep(r, reply)
    \/ \E r \in ReqIds : CleanupStep(r)
    \/ \E r \in ReqIds : CatchStep(r)

Spec == Init /\ [][Next]_vars

InitServer == Init /\ build = "server.js"

NextPageRequests ==
    \/ \E files \in SelectableFiles : FileChange(files)
    \/ GenerateClick
    \/ \E f \in InFlight("/api/summarize") :
          \E response \in SummarizeResponses : SummarizeSettle(f, response)
    \/ \E value \in ChatInputs : sendChatMessage(value)
    \/ \E f \in InFlight("/api/chat") :
          \E response \in ChatResponses : ChatSettle(f, response)
    \/ GenerateQuizClick
    \/ \E f \in InFlight("/api/generate-quiz") :
          \E response \in QuizResponses : QuizSettle(f, response)

NextApi ==
    \/ \E noteText \in NoteTexts : \E question \in Questions : \E reply \in AIReplies :
          ApiChat(noteText, question, reply)
    \/ \E noteText \in NoteTexts : \E reply \in QuizReplies :
          ApiQuiz(noteText, reply)

\* requests of other clients to the chat and quiz routes, the AI service up
NextClient ==
    \/ \E noteText \in NoteTexts : \E question \in Questions :
          \E reply \in {r \in AIReplies : r.text = <<"s">>} :
              ApiChat(noteText, question, reply)
    \/ \E noteText \in NoteTexts :
          \E reply \in {r \in QuizReplies : r.text = <<"{quiz5}">>} :
              ApiQuiz(noteText, reply)

\* the page and server.js's chat and quiz routes, the routes open to any client
NextSession == NextPageRequests \/ NextClient

SpecSession == InitServer /\ [][NextSession]_vars

\* the page alone, its requests answered by any response of the server's shape
NextPage ==
    \/ NextPageRequests
    \/ \E questionIndex \in 0..1 : \E optionIndex \in 0..3 :
          selectOption(questionIndex, optionIndex)
    \/ \E index \in 0..(MaxSelected - 1) : removeFile(index)
    \/ submitQuiz
    \/ retakeQuiz

SpecPage == InitServer /\ [][NextPage]_vars

\* the helper functions on any argument
NextFn ==
    \/ \E ts \in 0..MaxClock : \E name \in OriginalNames : \E file \in FileStates :
          CallExtract(ts, name, file)
    \/ \E name \in OriginalNames : \E mimetype \in DeclaredMimeTypes :
          CallFileFilter(name, mimetype)

SpecFn == InitServer /\ [][NextFn]_vars

\* server.js's chat and quiz routes alone
SpecApi == InitServer /\ [][NextApi]_vars

(***************************************************************************)
(* Properties of /api/summarize.                                           *)
(***************************************************************************)
Answered(r) == reqs[r].pc = "done" /\ reqs[r].handled

\* every document of the request was extracted, to a text that is not empty
\* after trimming
AllExtractedNonEmpty(r) ==
    /\ Len(reqs[r].files) >= 1
    /\ Len(reqs[r].texts) = Len(reqs[r].files)
    /\ \A k \in 1..Len(reqs[r].texts) : Trim(reqs[r].texts[k]) # << >>

\* C1: once a summarize request that uploaded files has been answered, on
\* whichever exit path, none of the files it stored is left in uploads/.
C1_UploadsDeleted ==
    \A r \in ReqIds :
        Answered(r) =>
            \A k \in 1..Len(reqs[r].files) :
                LET f == disk[reqs[r].files[k].path]
                IN  ~(f.present /\ f.owner = r)

\* two answered requests with files, one on the success path and one
\* through the catch block
C1_Witness ==
    \E r, q \in ReqIds :
        /\ Answered(r) /\ Len(reqs[r].files) >= 1 /\ reqs[r].res.status = 200
        /\ Answered(q) /\ Len(reqs[q].files) >= 1 /\ reqs[q].res.status = 500

\* C2: a summarize request whose documents all extract to non-empty text
\* and whose AI call does not fail is answered with success, carrying the
\* AI's text verbatim as the summary.
C2_SummaryReturned ==
    \A r \in ReqIds :
        (Answered(r) /\ AllExtractedNonEmpty(r) /\ reqs[r].aiReply # "error") =>
            /\ reqs[r].aiReply = "text"
            /\ reqs[r].res.status = 200
            /\ reqs[r].res.success
            /\ reqs[r].res.summary = reqs[r].summary

\* C7: a summarize request with a document whose extracted text is empty or
\* whitespace only is answered with the empty-content failure, without an
\* AI call and without a summary.
C7_EmptyContentRejected ==
    \A r \in ReqIds :
        (Answered(r) /\ \E k \in 1..Len(reqs[r].texts) : Trim(reqs[r].texts[k]) = << >>) =>
            /\ reqs[r].res.status = 400
            /\ reqs[r].res.error = EmptyContentMessage
            /\ reqs[r].aiCalls = 0
            /\ reqs[r].res.summary = << >>

\* C9: a summarize request whose documents all extract to non-empty text
\* calls the AI service exactly once, whatever the call's outcome; no
\* request calls it twice.
C9_OneAICall ==
    \A r \in ReqIds :
        /\ reqs[r].aiCalls <= 1
        /\ (Answered(r) /\ AllExtractedNonEmpty(r)) => reqs[r].aiCalls = 1

\* the corpus of the first n documents, as the claim states it
RECURSIVE CorpusOf(_, _)
CorpusOf(q, n) ==
    IF n = 0
    THEN << >>
    ELSE CorpusOf(q, n - 1)
           \o <<NL, NL, "=== ", q.files[n].originalname, " ===", NL, NL>>
           \o q.texts[n]

\* C10: the corpus of a multi-file request is, in upload order, each
\* extracted file's header followed by its text.
C10_CorpusInUploadOrder ==
    \A r \in ReqIds :
        build = "server.js" =>
            reqs[r].combinedText = CorpusOf(reqs[r], Len(reqs[r].texts))

\* both documents of a two-file request are in the corpus, with different
\* names and texts
C10_Witness ==
    \E r \in ReqIds :
        /\ build = "server.js"
        /\ Len(reqs[r].texts) = 2
        /\ reqs[r].files[1].originalname # reqs[r].files[2].originalname
        /\ reqs[r].texts[1] # reqs[r].texts[2]
        /\ reqs[r].texts[1] # << >>

(***************************************************************************)
(* Properties of /api/chat, /api/generate-quiz and the page.               *)
(***************************************************************************)
QuizRoute == "/api/generate-quiz"

ContextRoutes == {"/api/chat", QuizRoute}

\* the message of the 400 each route answers when noteText is missing
NoContextMessage(route) ==
    IF route = "/api/chat"
    THEN "Both noteText and question are required."
    ELSE "noteText is required."

\* a request with a missing or empty noteText is answered 400 with the
\* route's message, the AI service not called
NoContextRejected ==
    (exchange.route \in ContextRoutes /\ ~JsTruthy(exchange.body.noteText)) =>
        /\ exchange.out.res.status = 400
        /\ ~exchange.out.res.success
        /\ exchange.out.res.error = NoContextMessage(exchange.route)
        /\ exchange.out.aiCalls = 0

\* the page starts a chat or quiz fetch in this step
SendsContextRequest ==
    \E f \in BagToSet(fetches') :
        /\ f.url \in ContextRoutes
        /\ CopiesIn(f, fetches') > CopiesIn(f, fetches)

\* C3: /api/chat and /api/generate-quiz called with an empty note always
\* fail with the no-context answer, whatever the question, without calling
\* the AI service; and the page sends no chat or quiz request while
\* currentNoteText is empty.
C3_NoContext ==
    /\ []NoContextRejected
    /\ [][SendsContextRequest => currentNoteText # << >>]_vars
    /\ [](\A f \in BagToSet(fetches) : f.url \in ContextRoutes => f.noteText # << >>)

\* a client's chat request with an empty note and a real question has been
\* refused, and the page, its note empty, has refused a chat message
C3_Witness ==
    /\ exchange.route = "/api/chat"
    /\ exchange.body.noteText.type = "string"
    /\ exchange.body.noteText.str = << >>
    /\ exchange.body.question.type = "string"
    /\ exchange.body.question.str = <<"q">>
    /\ exchange.out.res.status = 400
    /\ currentNoteText = << >>
    /\ dom.error = "Please generate a summary first before chatting!"
    /\ fetches = EmptyBag

\* the AI's reply is the five-question quiz, bare or inside code fences
RepliesQuizOfFive ==
    /\ exchange.reply.ok
    /\ exchange.reply.text \in { <<"{quiz5}">>,
                                 <<FENCE, "json", NL, "{quiz5}", NL, FENCE>>,
                                 <<FENCE, NL, "{quiz5}", NL, FENCE, NL>> }

\* C4: a quiz request on a non-empty note, the AI's reply being valid quiz
\* JSON of five questions with four options each, bare or wrapped in code
\* fences, is answered success with exactly five questions.
C4_QuizOfFive ==
    (exchange.route = QuizRoute /\ JsTruthy(exchange.body.noteText) /\ RepliesQuizOfFive) =>
        /\ exchange.out.res.status = 200
        /\ exchange.out.res.success
        /\ exchange.out.res.data.questionsKind = "array"
        /\ Len(exchange.out.res.data.questions) = 5

\* C5: a quiz request whose AI reply is not JSON after fence stripping and
\* trimming fails with the JSON parse error and returns no quiz.
C5_ParseFailure ==
    (/\ exchange.route = QuizRoute
     /\ JsTruthy(exchange.body.noteText)
     /\ exchange.reply.ok
     /\ JSONParse(CleanQuizText(exchange.reply.text)).threw) =>
        /\ exchange.out.res.status = 500
        /\ ~exchange.out.res.success
        /\ exchange.out.res.error = "Unexpected token in JSON"
        /\ exchange.out.res.data.kind = "undefined"

\* C6: every question of the quiz the page holds as currentQuiz has exactly
\* four options and a correct-answer index in 0..3.
C6_QuizWellShaped ==
    ~currentQuiz.isNull =>
        \A k \in 1..Len(currentQuiz.questions) :
            /\ Len(currentQuiz.questions[k].options) = 4
            /\ currentQuiz.questions[k].correctAnswer \in 0..3

(***************************************************************************)
(* Properties of the helper functions.                                     *)
(***************************************************************************)
SupportedExtensions == {".pdf", ".docx", ".pptx", ".txt"}

\* C8: for a file whose extension, lowercased, is none of .pdf, .docx,
\* .pptx, .txt, extractTextFromFile throws 'Unsupported file type' and
\* calls no extraction routine, reads no file and calls no parser.
C8_UnsupportedFormat ==
    (/\ call.fn = "extractTextFromFile"
     /\ ToLowerCase(Extname(call.name)) \notin SupportedExtensions) =>
        /\ call.out.threw
        /\ call.out.message = "Unsupported file type"
        /\ call.out.calls = << >>

\* extractTextFromFile has been called on a stored .exe file, and on a
\* file without extension
C8_Witness ==
    /\ call.fn = "extractTextFromFile"
    /\ (call.name = "c.exe" \/ call.name = "notes")
    /\ call.file.present
    /\ call.out.threw

\* a question that is a string and empty after trimming
BlankQuestion(question) == question.type = "string" /\ Len(Trim(question.str)) = 0

\* C11: a chat request with a non-empty note and a question that is the
\* empty string or whitespace only is answered 400 'Question cannot be
\* empty.' without an AI call; and the page has no chat request in flight
\* whose question is empty after trimming.
C11_EmptyQuestion ==
    /\ (/\ exchange.route = "/api/chat"
        /\ JsTruthy(exchange.body.noteText)
        /\ BlankQuestion(exchange.body.question)) =>
            /\ exchange.out.res.status = 400
            /\ exchange.out.res.error = "Question cannot be empty."
            /\ exchange.out.aiCalls = 0
    /\ \A f \in InFlight("/api/chat") : Len(Trim(f.question)) # 0

\* the value JSON.parse gives for the AI's reply to the handled quiz request
ParsedReply == JSONParse(CleanQuizText(exchange.reply.text))

\* C12: when the AI's reply to a quiz request on a non-empty note parses as
\* JSON, whatever the value (object, array, null, number, string), the
\* request fails with 'Invalid quiz format received from AI' if the value
\* has no `questions` member or that member is not an array, and succeeds
\* only if `questions` is an array.
C12_InvalidSchema ==
    (/\ exchange.route = QuizRoute
     /\ JsTruthy(exchange.body.noteText)
     /\ exchange.reply.ok
     /\ ~ParsedReply.threw) =>
        /\ InvalidQuizFormat(ParsedReply.value) =>
              /\ exchange.out.res.status = 500
              /\ ~exchange.out.res.success
              /\ exchange.out.res.error = "Invalid quiz format received from AI"
        /\ exchange.out.res.success => ~InvalidQuizFormat(ParsedReply.value)

(***************************************************************************)
(* Properties of the page's note.                                          *)
(***************************************************************************)
\* a summarize fetch of the page settles in this step
SummarizeCompletes ==
    \E f \in InFlight("/api/summarize") : fetches' = fetches (-) SetToBag({f})

\* the summaries of the successful summarize responses
Summaries ==
    { response.summary :
        response \in { r \in SummarizeResponses : r.kind = "json" /\ r.ok /\ r.success } }

\* C13: currentNoteText is empty when the page starts, and the only step
\* that changes it is the settling of a summarize request with a successful
\* response, which sets it to that response's summary; chat sends, quiz
\* generations, option selections, quiz submissions, retakes and file
\* selections leave it as it is.
C13_NoteWrittenBySummarize ==
    /\ currentNoteText = << >>
    /\ [][currentNoteText' # currentNoteText =>
             SummarizeCompletes /\ currentNoteText' \in Summaries]_vars

\* with a note on the page, a chat request is out, a quiz has been
\* generated, answered and submitted
C13_Witness ==
    /\ currentNoteText # << >>
    /\ InFlight("/api/chat") # {}
    /\ ~currentQuiz.isNull
    /\ DOMAIN userAnswers # {}
    /\ dom.scoreDisplay.written

(***************************************************************************)
(* Properties of the failures.                                             *)
(***************************************************************************)
\* the error messages server.js itself gives to a failure, one kind each:
\* unsupported format, extraction failed (per format), empty content, no
\* context (per route), empty question, invalid quiz schema.  It has none
\* for a failed AI call or a failed JSON.parse.
TypedFailureMessages ==
    { "Unsupported file type",
      "Failed to read PDF file", "Failed to read Word document",
      "Failed to read PowerPoint file", "Failed to read text file",
      "Could not extract text from file. File may be empty or corrupted.",
      "Both noteText and question are required.", "noteText is required.",
      "Question cannot be empty.",
      "Invalid quiz format received from AI" }

\* C14: every failure of the chat and quiz routes reaches the caller as one
\* of the typed failures, told apart by the response; an exception of the
\* AI provider or of JSON.parse is never passed on as it was thrown.
C14_TypedFailures ==
    (exchange.route \in ContextRoutes /\ ~exchange.out.res.success) =>
        exchange.out.res.error \in TypedFailureMessages

(***************************************************************************)
(* Properties of the handlers as a whole.                                  *)
(***************************************************************************)
\* the positions a summarize handler can be at
HandlerPositions == {"none", "extract", "unlinkEmpty", "ai", "cleanup", "catch", "done"}

\* the step a running summarize handler is waiting for
StepOf(r) ==
    \/ ExtractStep(r)
    \/ UnlinkEmptyStep(r)
    \/ \E reply \in AIReplies : AIStep(r, reply)
    \/ CleanupStep(r)
    \/ CatchStep(r)

\* a response of the server: success, 400 or 500
IsResponse(res) ==
    /\ res.status = 200 \/ res.status = 400 \/ res.status = 500
    /\ res.success <=> res.status = 200

\* C15: every request that reaches a handler gets exactly one response,
\* success, 400 or 500, and no exception leaves the handler, whichever step
\* fails: a summarize handler that has not answered yet can always take its
\* next step, has sent nothing, and ends only by answering once; the chat and
\* quiz handlers answer every body and every outcome of the AI call.
C15_OneResponse ==
    /\ \A r \in ReqIds :
          LET q == reqs[r]
          IN  /\ q.pc \in HandlerPositions
              /\ q.responses <= 1
              /\ q.pc = "done" => q.responses = 1 /\ IsResponse(q.res)
              /\ (q.pc # "none" /\ q.pc # "done") => q.responses = 0 /\ ENABLED StepOf(r)
    /\ \A noteText \in NoteTexts :
          /\ \A question \in Questions : \A reply \in AIReplies :
                IsResponse(chatHandler([noteText |-> noteText, question |-> question],
                                       reply).res)
          /\ \A reply \in QuizReplies :
                IsResponse(generateQuizHandler([noteText |-> noteText,
                                                question |-> Undefined], reply).res)

\* a request has been answered 500 after an unlink of its clean-up failed
C15_Witness ==
    \E r \in ReqIds :
        /\ reqs[r].pc = "done"
        /\ reqs[r].responses = 1
        /\ reqs[r].res.status = 500
        /\ reqs[r].res.error = "ENOENT: no such file or directory, unlink"

\* the messages the four extraction routines give to what they caught
ExtractionFailedMessages ==
    { "Failed to read PDF file", "Failed to read Word document",
      "Failed to read PowerPoint file", "Failed to read text file" }

\* C16: a failure leaving extractTextFromFile is either 'Unsupported file
\* type' or an extraction failure that names the format and carries the
\* reason of the exception caught inside the extraction routine, never that
\* exception itself.
C16_ExtractionFailureLabelled ==
    (call.fn = "extractTextFromFile" /\ call.out.threw) =>
        \/ call.out.message = "Unsupported file type"
        \/ /\ call.out.message \in ExtractionFailedMessages
           /\ call.out.cause = LibraryError(call.file)

\* the page processes this response to one of its summarize requests
ProcessesSummarize(response) ==
    \E f \in InFlight("/api/summarize") : SummarizeSettle(f, response)

\* C17: summarize requests of the page may overlap; whenever the response
\* to one of them is processed, a successful one sets currentNoteText to
\* exactly its summary, whatever the note held and whatever other requests
\* are still out, and an unsuccessful one leaves the note as it is: the
\* note after several completions is the summary processed last, one whole
\* summary and never a mix of two.
C17_LastWriteWins ==
    /\ [][\A response \in SummarizeResponses :
             ProcessesSummarize(response) =>
                 currentNoteText' = IF response.kind = "json" /\ response.ok
                                       /\ response.success
                                    THEN response.summary
                                    ELSE currentNoteText]_vars
    /\ [][SummarizeCompletes =>
             currentNoteText' \in Summaries \cup {currentNoteText}]_vars

\* two summarize requests of the page are out at once, a note from an
\* earlier one in place
C17_Witness ==
    /\ BagCardinality(fetches) = 2
    /\ \A f \in BagToSet(fetches) : f.url = "/api/summarize"
    /\ currentNoteText # << >>

\* C18: a chat request makes at most one AI call, exactly one when it is
\* answered 200, and the prompt of that call is the template filled with
\* this request's noteText and question and nothing else: equal requests
\* give equal prompts whatever was handled before.
C18_ChatIndependent ==
    exchange.route = "/api/chat" =>
        /\ exchange.out.aiCalls <= 1
        /\ exchange.out.res.status = 200 => exchange.out.aiCalls = 1
        /\ exchange.out.aiCalls = 1 =>
              exchange.out.prompt = ChatPrompt(exchange.body.noteText.str,
                                               exchange.body.question.str)

\* a chat request has been answered with the AI's text
C18_Witness ==
    /\ exchange.route = "/api/chat"
    /\ exchange.out.res.status = 200
    /\ exchange.out.aiCalls = 1
    /\ exchange.out.res.data.answer # << >>

\* the four MIME types of the supported formats
SupportedMimeTypes ==
    { "application/pdf",
      "application/vnd.openxmlformats-officedocument.wordprocessingml.document",
      "application/vnd.openxmlformats-officedocument.presentationml.presentation",
      "text/plain" }

\* C19: the upload filter accepts a file exactly when the extension of its
\* original name, lowercased, is .pdf, .docx, .pptx or .txt and its declared
\* MIME type is one of the four allowed; any other file is refused with the
\* error 'Invalid file type...'.
C19_FilterAccepts ==
    call.fn = "fileFilter" =>
        /\ call.accepted <=>
              /\ ToLowerCase(Extname(call.name)) \in SupportedExtensions
              /\ call.mimetype \in SupportedMimeTypes
        /\ call.accepted => ~call.out.threw
        /\ ~call.accepted =>
              /\ call.out.threw
              /\ call.out.message =
                   "Invalid file type. Only PDF, DOCX, PPTX, and TXT files are allowed."

\* a .txt file declared as an image has been refused
C19_Witness ==
    /\ call.fn = "fileFilter"
    /\ call.name = "a.txt"
    /\ call.mimetype = "image/png"
    /\ ~call.accepted
    /\ call.out.threw

(***************************************************************************)
(* Properties of the temporary files.                                      *)
(***************************************************************************)
\* the file the request stored for its k-th document is still in uploads/
Held(r, k) ==
    LET f == disk[reqs[r].files[k].path]
    IN  f.present /\ f.owner = r

\* C20: a document's temporary file is deleted as soon as its extraction
\* has returned or thrown, before any later step of the request begins: no
\* file of an already extracted document is on disk while the handler
\* awaits the extraction of the next document, and none of the request's
\* files is on disk while it awaits the AI service.
C20_DeletedAfterExtraction ==
    \A r \in ReqIds :
        /\ reqs[r].pc = "extract" => \A k \in 1..(reqs[r].i - 1) : ~Held(r, k)
        /\ reqs[r].pc = "ai" => \A k \in 1..Len(reqs[r].files) : ~Held(r, k)

(***************************************************************************)
(* Dispatch of extractTextFromFile.                                        *)
(***************************************************************************)
Routines == {"readPDF", "readWord", "readPowerPoint", "readTextFile"}

\* the routine the switch selects for a lowercase extension
RoutineOf(extension) ==
    CASE extension = ".pdf"  -> "readPDF"
      [] extension = ".docx" -> "readWord"
      [] extension = ".pptx" -> "readPowerPoint"
      [] extension = ".txt"  -> "readTextFile"
      [] OTHER               -> ""

\* the extraction routines among the calls made
RoutinesCalled(calls) == {k \in 1..Len(calls) : calls[k] \in Routines}

\* C21: a call of extractTextFromFile on a file whose extension, lowercased,
\* is .pdf, .docx, .pptx or .txt invokes exactly one extraction routine, the
\* one of the lowercased extension whatever the case it is written in, and
\* returns the text that routine got from the file, unchanged.
C21_DispatchOnExtension ==
    (/\ call.fn = "extractTextFromFile"
     /\ ToLowerCase(Extname(call.name)) \in SupportedExtensions) =>
        /\ Cardinality(RoutinesCalled(call.out.calls)) = 1
        /\ call.out.calls[1] = RoutineOf(ToLowerCase(Extname(call.name)))
        /\ ~call.out.threw => call.out.text = call.file.text

\* extractTextFromFile has returned the text of a file whose extension is
\* written in mixed case
C21_Witness ==
    /\ call.fn = "extractTextFromFile"
    /\ call.name = "f.Docx"
    /\ ~call.out.threw
    /\ call.out.calls[1] = "readWord"
    /\ call.out.text = <<"x">>

(***************************************************************************)
(* Independence of the summarize requests.                                 *)
(***************************************************************************)
\* the uploaded documents of the requests being handled: request and
\* position in req.files
DocsInFlight ==
    { d \in ReqIds \X (1..MaxUploads) :
        /\ reqs[d[1]].pc \notin {"none", "done"}
        /\ d[2] <= Len(reqs[d[1]].files) }

PathOf(d) == reqs[d[1]].files[d[2]].path

\* C22: no two uploaded documents that are in flight at the same time have
\* the same storage path, and the file a request is about to extract is the
\* one its own upload wrote.
C22_NoSharedPath ==
    /\ \A d1 \in DocsInFlight : \A d2 \in DocsInFlight :
          d1 # d2 => PathOf(d1) # PathOf(d2)
    /\ \A r \in ReqIds :
          (reqs[r].pc = "extract" /\ disk[reqs[r].files[reqs[r].i].path].present)
              => disk[reqs[r].files[reqs[r].i].path].owner = r

\* a response the page takes as a success: response.ok && data.success
Succeeded(response) == response.kind = "json" /\ response.ok /\ response.success

\* C23: when a summarize request of the page settles as a failure (an error
\* response or a rejected fetch), currentNoteText is what it was before.
C23_FailedSummarizeKeepsNote ==
    [][\A f \in InFlight("/api/summarize") : \A response \in SummarizeResponses :
          (SummarizeSettle(f, response) /\ ~Succeeded(response))
              => currentNoteText' = currentNoteText]_vars

\* a note is held, no request is out, and the page shows the message of a
\* summarize request that could not reach the server
C23_Witness ==
    /\ currentNoteText = <<"s">>
    /\ dom.error = ConnectMessage
    /\ fetches = EmptyBag

\* an extraction of the request has thrown: the handler holds the Error of
\* an extraction routine
ExtractionFailed(r) == reqs[r].error \in ExtractionFailedMessages

\* C24: when the extraction of a document of a summarize request fails, the
\* request fails as a whole: no AI call is made, the documents after the
\* failing one are not extracted, the answer is a failure without summary,
\* and once it is sent none of the request's files is left in uploads/.
C24_OneFailureFailsAll ==
    \A r \in ReqIds :
        ExtractionFailed(r) =>
            /\ reqs[r].pc \in {"catch", "done"}
            /\ reqs[r].aiCalls = 0
            /\ reqs[r].summary = << >>
            /\ Len(reqs[r].texts) < Len(reqs[r].files)
            /\ Answered(r) =>
                  /\ reqs[r].res.status = 500
                  /\ ~reqs[r].res.success
                  /\ reqs[r].res.summary = << >>
                  /\ \A k \in 1..Len(reqs[r].files) :
                        LET f == disk[reqs[r].files[k].path]
                        IN  ~(f.present /\ f.owner = r)

\* a request with two documents has been answered after the extraction of
\* its first document failed
C24_Witness ==
    \E r \in ReqIds :
        /\ Answered(r)
        /\ Len(reqs[r].files) = 2
        /\ reqs[r].texts = << >>
        /\ reqs[r].error = "Failed to read PDF file"

UnlinkFailedMessage == "ENOENT: no such file or directory, unlink"

\* C25: a failed unlink does not change the answer of a summarize request:
\* a request whose extraction and AI call succeeded is answered with the
\* success carrying the summary, and no answer reports the unlink's error.
C25_UnlinkFailureHarmless ==
    \A r \in ReqIds :
        Answered(r) =>
            /\ reqs[r].aiReply = "text" =>
                  /\ reqs[r].res.status = 200
                  /\ reqs[r].res.success
                  /\ reqs[r].res.summary = reqs[r].summary
            /\ reqs[r].res.error # UnlinkFailedMessage

\* the number of the page's requests to a route that are in flight
CountInFlight(url) ==
    LET RECURSIVE Sum(_)
        Sum(S) == IF S = {} THEN 0
                  ELSE LET f == CHOOSE x \in S : TRUE
                       IN  CopiesIn(f, fetches) + Sum(S \ {f})
    IN  Sum(InFlight(url))

\* C26: at most one chat request of the page is in flight, and the chat
\* input and send button are disabled exactly while one is: from the send to
\* its outcome, and enabled again after every outcome.
C26_OneChatInFlight ==
    /\ CountInFlight("/api/chat") <= 1
    /\ dom.chatDisabled <=> CountInFlight("/api/chat") = 1

\* a chat request is out, the controls disabled, while another request of
\* the page is out as well
C26_Witness ==
    /\ CountInFlight("/api/chat") = 1
    /\ dom.chatDisabled
    /\ BagCardinality(fetches) = 2

\* C27: a quiz held by the page was generated from the note the page holds:
\* a quiz is stored only from a request that carried the current note, and
\* when the note is replaced by another no quiz stays.
C27_QuizOfCurrentNote ==
    /\ [][\A f \in InFlight("/api/generate-quiz") : \A response \in QuizResponses :
             (QuizSettle(f, response) /\ Succeeded(response))
                 => f.noteText = currentNoteText]_vars
    /\ [][currentNoteText' # currentNoteText => currentQuiz'.isNull]_vars

(***************************************************************************)
(* Properties of the quiz on the page.                                     *)
(***************************************************************************)
\* every question of currentQuiz has a recorded answer
AllAnswered ==
    \A i \in 0..(Len(currentQuiz.questions) - 1) : i \in DOMAIN userAnswers

\* C28: the quiz results are shown only while every question of currentQuiz
\* has a recorded answer; a submission with fewer recorded answers than
\* questions shows an error, leaves the results hidden and leaves
\* userAnswers as it is.
C28_ResultsOnlyWhenAllAnswered ==
    /\ [](~dom.resultsHidden => ~currentQuiz.isNull /\ AllAnswered)
    /\ [][(submitQuiz /\ Cardinality(DOMAIN userAnswers) < Len(currentQuiz.questions))
             => /\ dom'.error = AnswerAllMessage
                /\ dom'.resultsHidden
                /\ userAnswers' = userAnswers]_vars

\* a submission with one of two questions answered has been refused
C28_Witness ==
    /\ ~currentQuiz.isNull
    /\ Cardinality(DOMAIN userAnswers) = 1
    /\ dom.error = AnswerAllMessage
    /\ dom.resultsHidden

\* C29: while the results of a submission are shown, the score displayed is
\* the number of questions of currentQuiz whose recorded answer is the
\* correct one, between 0 and the number of questions.
C29_ScoreMatchesAnswers ==
    ~dom.resultsHidden =>
        LET total == Len(currentQuiz.questions)
        IN  /\ dom.scoreDisplay.written
            /\ dom.scoreDisplay.total = total
            /\ dom.scoreDisplay.score \in 0..total
            /\ dom.scoreDisplay.score = CorrectCount(currentQuiz.questions, userAnswers, total)

\* C30: recorded answers do not outlive their quiz attempt.  A successful
\* generate-quiz response makes its questions the current quiz and empties
\* userAnswers; a failed one changes neither; a retake empties userAnswers
\* and leaves currentQuiz; and no step changes currentQuiz without emptying
\* userAnswers.
C30_AnswersResetWithQuiz ==
    /\ [][\A f \in InFlight("/api/generate-quiz") : \A response \in QuizResponses :
             QuizSettle(f, response) =>
                 IF Succeeded(response)
                 THEN /\ ~currentQuiz'.isNull
                      /\ currentQuiz'.questions = response.questions
                      /\ DOMAIN userAnswers' = {}
                 ELSE /\ currentQuiz' = currentQuiz
                      /\ userAnswers' = userAnswers]_vars
    /\ [][retakeQuiz => DOMAIN userAnswers' = {} /\ currentQuiz' = currentQuiz]_vars
    /\ [][currentQuiz' # currentQuiz => DOMAIN userAnswers' = {}]_vars

\* a quiz is held with no recorded answer and its results hidden, after a
\* submission had shown results
C30_Witness ==
    /\ ~currentQuiz.isNull
    /\ DOMAIN userAnswers = {}
    /\ dom.scoreDisplay.written
    /\ dom.resultsHidden

====
